---------------------------- MODULE Spec2Model ----------------------------
(***************************************************************************)
(* A model of the_ark: Screenshot (src/the_ark/screen_capture.py) and      *)
(* S3Client (src/the_ark/s3_client.py).                                    *)
(*                                                                         *)
(* An image is the sequence of its pixel rows, top row first.  A pixel row *)
(* is one opaque value: two rows are equal exactly when numpy.array_equal  *)
(* holds of them (same width, same channels, same pixels).  Row indices    *)
(* are 0-based as in the source; RowAt reads them out of 1-based TLA+      *)
(* sequences.                                                              *)
(***************************************************************************)
EXTENDS Integers, Sequences, FiniteSets, TLC

\* ------------------------------------------------------------------ bounds
MaxHeaderHeight == 3
MaxFooterHeight == 6
MaxOffset == 4
MaxPageHeight == 7
MaxViewport == 3
MaxPadding == 2
MaxElementScrollHeight == 5
MaxElementHeight == 3
MaxElementScrolls == 5
MaxS3Calls == 4

\* The pixel rows the images are drawn from.
RowValues == {"a", "b"}

\* ------------------------------------------------------------------ state
VARIABLES
    configured_offset,          \* the pixel_match_offset given to __init__
    pixel_match_offset,         \* self.pixel_match_offset
    header_image,               \* _crop_and_stitch_image: header_image
    footer_image,               \* _crop_and_stitch_image: footer_image
    header_last_hundred_rows,   \* the trailing rows of the header compared
    i,                          \* index of the next footer row enumerate yields
    crop_row,                   \* crop_row
    stitched_image,             \* the image returned
    st_pc,                      \* position in _crop_and_stitch_image
    page_height,                \* browser: height of the document
    page_pattern,               \* browser: what the document's rows look like
    client_height,              \* browser: documentElement.clientHeight
    scroll_y,                   \* browser: the window's scroll position
    mobile,                     \* sh.desired_capabilities.get("mobile")
    present,                    \* browser: the selectors that name an element
    hidden,                     \* browser: the elements hidden now
    hidden_before,              \* browser: the elements hidden when the call began
    headers,                    \* self.headers (<<>> is None or [])
    footers,                    \* self.footers (<<>> is None or [])
    calls,                      \* the operations _capture_full_page has made, in order
    image_data,                 \* _capture_full_page: image_data
    fp_pc,                      \* position in _capture_full_page
    element_scroll_height,      \* browser: height of the scrolled element's content
    element_height,             \* browser: height of the scrolled element
    element_scroll_top,         \* browser: the element's scroll position
    element_scrolls,            \* browser: the scroll advances made on the element
    scroll_padding_arg,         \* capture_scrolling_element(scroll_padding=...)
    viewport_only,              \* capture_scrolling_element(viewport_only=...)
    padding,                    \* capture_scrolling_element: padding
    el_pc,                      \* position in capture_scrolling_element
    self_scroll_padding,        \* self.scroll_padding
    padding_arg,                \* capture_page(padding=...): <<>> is None, <<p>> is p
    scroll_padding,             \* _capture_paginated_page: scroll_padding
    current_scroll_position,    \* _capture_paginated_page: current_scroll_position
    viewport_height,            \* _capture_paginated_page: viewport_height
    new_scroll_position,        \* _capture_paginated_page: new_scroll_position
    image_list,                 \* image_list of the running capture
    pg_pc,                      \* position in _capture_paginated_page
    exception,                  \* the exception raised inside the running call
    outcome,                    \* what capture_page or capture_scrolling_element gave its caller
    bucket_name,                \* S3Client: self.bucket_name
    s3_connection,              \* S3Client: self.s3_connection (<<>> is None)
    bucket,                     \* S3Client: self.bucket (<<>> is None)
    connections_opened,         \* boto: the S3Connection objects constructed so far
    s3_stack,                   \* S3Client: the methods running, the innermost last
    s3_pc,                      \* position in the innermost method
    s3_outcome,                 \* what the last call of the client gave its caller
    s3_calls                    \* the calls made on the client so far

stitch_vars == <<configured_offset, pixel_match_offset, header_image, footer_image,
                 header_last_hundred_rows, i, crop_row, stitched_image, st_pc>>

browser_vars == <<page_height, page_pattern, client_height, scroll_y, mobile, present, hidden,
                  hidden_before>>

fullpage_vars == <<headers, footers, calls, image_data, fp_pc>>

paginated_vars == <<self_scroll_padding, padding_arg, scroll_padding,
                    current_scroll_position, viewport_height, new_scroll_position,
                    image_list, pg_pc>>

element_vars == <<element_scroll_height, element_height, element_scroll_top,
                  element_scrolls, scroll_padding_arg, viewport_only, padding, el_pc>>

call_vars == <<exception, outcome>>

s3_vars == <<bucket_name, s3_connection, bucket, connections_opened, s3_stack, s3_pc,
             s3_outcome, s3_calls>>

vars == <<stitch_vars, browser_vars, paginated_vars, fullpage_vars, element_vars, call_vars,
          s3_vars>>

\* ------------------------------------------------------------------ helpers
Min(a, b) == IF a < b THEN a ELSE b
Max(a, b) == IF a > b THEN a ELSE b

\* All sequences over S of length lo..hi.
SeqsOf(S, lo, hi) == UNION {[1..n -> S] : n \in lo..hi}

\* arr[k] of the source (0-based).
RowAt(arr, k) == arr[k + 1]

\* Python's arr[start:stop] for a non-negative stop: a negative start counts
\* from the end, and both ends are clipped to the array.
PySlice(arr, start, stop) ==
    LET n == Len(arr)
        s == IF start < 0 THEN Max(0, n + start) ELSE Min(start, n)
        e == Min(stop, n)
    IN  [k \in 1..Max(0, e - s) |-> arr[s + k]]

\* ------------------------------------------------------------------ exceptions
\* An exception is its class, its msg, its stacktrace attribute and its details
\* (<<>> is None, <<d>> is the dict d; a dict is a function of its keys).  A
\* message is the sequence of the texts format() joined.
NoException == [class |-> "none", msg |-> <<>>, stacktrace |-> <<>>, details |-> <<>>]

\* The classes an exception of class `class` is an instance of: Exception
\* above ScreenshotException above SeleniumError (lines 363 and 381), and
\* above SeleniumHelperExceptions, the base of the helper's ElementError and
\* ElementNotVisibleError.  IOError stands for any failure that is not the
\* helper's (PIL decoding or saving an image, the driver's execute_script);
\* IndexError is what numpy raises for a row past the end of an array.
Bases(class) ==
    CASE class = "SeleniumError" -> {"SeleniumError", "ScreenshotException", "Exception"}
      [] class = "ScreenshotException" -> {"ScreenshotException", "Exception"}
      [] class = "ElementNotVisibleError" ->
            {"ElementNotVisibleError", "SeleniumHelperExceptions", "Exception"}
      [] class = "ElementError" -> {"ElementError", "SeleniumHelperExceptions", "Exception"}
      [] class = "SeleniumHelperExceptions" -> {"SeleniumHelperExceptions", "Exception"}
      [] class = "IOError" -> {"IOError", "Exception"}
      [] class = "IndexError" -> {"IndexError", "Exception"}
      [] OTHER -> {}

\* `except clause`: the exception is an instance of the class named.
Catches(clause, e) == clause \in Bases(e.class)

\* "{0} | {1}".format(message, text).
Format(message, text) == <<message>> \o text

\* dict[key] = value.
SetItem(dict, key, value) ==
    [k \in (DOMAIN dict) \cup {key} |-> IF k = key THEN value ELSE dict[k]]

\* Lines 364-368: ScreenshotException(msg, stacktrace, details).  The trace is
\* kept under the key "stracktrace" of details, {} standing in for None.
ScreenshotException(msg, stacktrace, details) ==
    [class |-> "ScreenshotException",
     msg |-> msg,
     stacktrace |-> <<>>,
     details |-> <<SetItem(IF details = <<>> THEN <<>> ELSE details[1],
                           "stracktrace", stacktrace)>>]

\* Lines 382-386: SeleniumError(message, selenium_helper_exception).
SeleniumError(message, selenium_helper_exception) ==
    [ScreenshotException(Format(message, selenium_helper_exception.msg),
                         selenium_helper_exception.stacktrace,
                         selenium_helper_exception.details)
        EXCEPT !.class = "SeleniumError"]

\* traceback.format_exc() inside a handler: the trace of the exception handled.
FormatExc(e) == <<"Traceback", e.class>>

\* Lines 66-72: the handlers of capture_page.
CapturePageHandlerHelperOnly(e) ==
    IF Catches("SeleniumHelperExceptions", e)
    THEN SeleniumError("A selenium issue arose while taking the screenshot", e)
    ELSE e
CapturePageHandler(e) ==
    IF Catches("SeleniumHelperExceptions", e)
    THEN SeleniumError("A selenium issue arose while taking the screenshot", e)
    ELSE IF Catches("Exception", e)
    THEN ScreenshotException(
             Format("Unhandled exception while taking the screenshot", e.msg),
             FormatExc(e), <<>>)
    ELSE e

\* Lines 111-120: the handlers of capture_scrolling_element.
CaptureScrollingElementHandler(e) ==
    IF Catches("SeleniumHelperExceptions", e)
    THEN SeleniumError(
             "A selenium issue arose while trying to capture the scrolling element", e)
    ELSE IF Catches("Exception", e)
    THEN ScreenshotException(
             Format("Unhandled exception while taking the scrolling screenshot of the element",
                    e.msg),
             FormatExc(e), <<[css_selector |-> "css_selector"]>>)
    ELSE e

\* Lines 341-342: what _crop_and_stitch_image raises when its body raised e.
StitchHandler(e) ==
    ScreenshotException(
        Format("Error while cropping and stitching a full page screenshot", e.msg),
        FormatExc(e), <<>>)

\* A failure of the browser helper and a failure that is not the helper's.
Failures ==
    {[class |-> "SeleniumHelperExceptions", msg |-> <<"helper message">>,
      stacktrace |-> <<"helper stacktrace">>, details |-> <<[current_url |-> "url"]>>],
     [class |-> "IOError", msg |-> <<"cannot identify image file">>,
      stacktrace |-> <<>>, details |-> <<>>]}

\* What a call gave its caller: nothing yet, a value returned, or an exception.
NoOutcome == [kind |-> "none", returned |-> <<>>, raised |-> NoException]
Returned(value) == [kind |-> "returned", returned |-> <<value>>, raised |-> NoException]
Raised(e) == [kind |-> "raised", returned |-> <<>>, raised |-> e]

\* ------------------------------------------------------------------ idle parts
\* No S3Client is in use.
S3Idle ==
    /\ bucket_name = "none"
    /\ s3_connection = <<>>
    /\ bucket = <<>>
    /\ connections_opened = 0
    /\ s3_stack = <<>>
    /\ s3_pc = "idle"
    /\ s3_outcome = "none"
    /\ s3_calls = 0

\* No call has raised or returned, on the Screenshot or on an S3Client.
CallIdle ==
    /\ exception = NoException
    /\ outcome = NoOutcome
    /\ S3Idle

\* No stitch is running.
StitchIdle ==
    /\ configured_offset = 1
    /\ pixel_match_offset = 1
    /\ header_image = <<>>
    /\ footer_image = <<>>
    /\ header_last_hundred_rows = <<>>
    /\ i = 0
    /\ crop_row = 0
    /\ stitched_image = <<>>
    /\ st_pc = "idle"

\* No browser is looked at.
BrowserIdle ==
    /\ page_height = 1
    /\ page_pattern = "distinct"
    /\ client_height = 1
    /\ scroll_y = 0
    /\ mobile = FALSE
    /\ present = {}
    /\ hidden = {}
    /\ hidden_before = {}

\* No full-page capture is running, and no sticky element is configured.
FullPageIdle ==
    /\ headers = <<>>
    /\ footers = <<>>
    /\ calls = <<>>
    /\ image_data = <<>>
    /\ fp_pc = "idle"

\* No element is being scrolled.
ElementIdle ==
    /\ element_scroll_height = 1
    /\ element_height = 1
    /\ element_scroll_top = 0
    /\ element_scrolls = 0
    /\ scroll_padding_arg = <<>>
    /\ viewport_only = TRUE
    /\ padding = 0
    /\ el_pc = "idle"

\* No paginated capture is running.
PaginatedIdle ==
    /\ self_scroll_padding = 0
    /\ padding_arg = <<>>
    /\ scroll_padding = 0
    /\ current_scroll_position = 0
    /\ viewport_height = 0
    /\ new_scroll_position = 0
    /\ image_list = <<>>
    /\ pg_pc = "idle"

\* ------------------------------------------------- _crop_and_stitch_image
\* Lines 287-288: the offset is set to the header's height when it exceeds it.
ClampOffsetUnclamped(offset, header_image_height) == offset
ClampOffset(offset, header_image_height) ==
    IF offset > header_image_height THEN header_image_height ELSE offset

\* Line 292: header_array[header_image_height - offset: header_image_height].
LastRows(header_array, offset) ==
    PySlice(header_array, Len(header_array) - offset, Len(header_array))

\* Lines 303-311, the inner loop from y on, for the footer row i whose first
\* row matched.  It runs over every row of the block: a row that differs is
\* skipped, and only at the last y (offset - 1) does an equal row set crop_row.
\* footer_array[i + y] past the footer's end raises IndexError.
RECURSIVE InnerLoop(_, _, _, _, _)
InnerLoop(footer_array, block, offset, row, y) ==
    IF y >= Len(block) THEN "no_match"
    ELSE IF row + y >= Len(footer_array) THEN "IndexError"
    ELSE IF RowAt(footer_array, row + y) = RowAt(block, y) /\ y = offset - 1
         THEN "match"
         ELSE InnerLoop(footer_array, block, offset, row, y + 1)

\* Lines 301-311: what one iteration of the outer loop finds at footer row `row`.
\* header_last_hundred_rows[0] of an empty block raises IndexError.
RowOutcome(footer_array, block, offset, row) ==
    IF Len(block) = 0 THEN "IndexError"
    ELSE IF RowAt(footer_array, row) # RowAt(block, 0) THEN "no_match"
    ELSE InnerLoop(footer_array, block, offset, row, 0)

\* Lines 314-315: with no row matched, crop at the height of the header image.
FallbackCropRowMissing(row, header_image_height) == row
FallbackCropRow(row, header_image_height) ==
    IF row = 0 THEN header_image_height ELSE row

\* Lines 319-321: crop_box = (0, crop_row, width, height), as <<upper, lower>>.
CropBoxKeepingMatchRow(row, footer_image_height) == <<row - 1, footer_image_height>>
CropBox(row, footer_image_height) == <<row, footer_image_height>>

\* Line 323: image.crop(box) of an array of rows.  PIL (the Python 2 releases
\* this code runs on) gives the rows upper..lower-1, black where the box
\* leaves the image, and an image of height 0 when lower < upper.
Crop(image, box) ==
    LET upper == box[1]
        lower == box[2]
    IN  [k \in 1..Max(0, lower - upper) |->
            IF upper + k \in 1..Len(image) THEN image[upper + k] ELSE "black"]

\* Lines 329-336: a canvas as tall as the header plus the cropped footer, the
\* header pasted at row 0 and the cropped footer at row header_image_height.
Paste(header, cropped_footer) ==
    LET header_image_height == Len(header)
        total_height == header_image_height + Len(cropped_footer)
    IN  [k \in 1..total_height |->
            IF k <= header_image_height THEN header[k]
            ELSE cropped_footer[k - header_image_height]]

\* Lines 278-292: the arrays, crop_row = 0, the clamped offset and the block.
StitchBegin ==
    /\ st_pc = "start"
    /\ crop_row' = 0
    /\ pixel_match_offset' = ClampOffset(pixel_match_offset, Len(header_image))
    /\ header_last_hundred_rows' = LastRows(header_image, pixel_match_offset')
    /\ i' = 0
    /\ st_pc' = "scan"
    /\ UNCHANGED <<configured_offset, header_image, footer_image, stitched_image>>

\* Lines 295-311: one iteration of the outer loop that completes.
ScanRow ==
    /\ st_pc = "scan"
    /\ i < Len(footer_image)
    /\ crop_row = 0
    /\ LET found == RowOutcome(footer_image, header_last_hundred_rows,
                               pixel_match_offset, i)
       IN  /\ found # "IndexError"
           /\ crop_row' = IF found = "match" THEN i + pixel_match_offset ELSE 0
    /\ i' = i + 1
    /\ UNCHANGED <<configured_offset, pixel_match_offset, header_image, footer_image,
                   header_last_hundred_rows, stitched_image, st_pc>>

\* Lines 301-306 and 340-342: an iteration whose row access raises; the
\* handler re-raises it as a ScreenshotException.
ScanRowRaises ==
    /\ st_pc = "scan"
    /\ i < Len(footer_image)
    /\ crop_row = 0
    /\ RowOutcome(footer_image, header_last_hundred_rows, pixel_match_offset, i)
          = "IndexError"
    /\ st_pc' = "failed"
    /\ UNCHANGED <<configured_offset, pixel_match_offset, header_image, footer_image,
                   header_last_hundred_rows, i, crop_row, stitched_image>>

\* Lines 295-298: the loop ends, the footer exhausted or crop_row set.
ScanEnd ==
    /\ st_pc = "scan"
    /\ (i >= Len(footer_image) \/ crop_row # 0)
    /\ st_pc' = "crop"
    /\ UNCHANGED <<configured_offset, pixel_match_offset, header_image, footer_image,
                   header_last_hundred_rows, i, crop_row, stitched_image>>

\* Lines 313-338: the fallback, the crop of the footer and the paste.
CropAndPaste ==
    /\ st_pc = "crop"
    /\ crop_row' = FallbackCropRow(crop_row, Len(header_image))
    /\ stitched_image' =
          Paste(header_image,
                Crop(footer_image, CropBox(crop_row', Len(footer_image))))
    /\ st_pc' = "done"
    /\ UNCHANGED <<configured_offset, pixel_match_offset, header_image, footer_image,
                   header_last_hundred_rows, i>>

\* A Screenshot with any configured offset is handed any header and footer.
InitStitch ==
    /\ configured_offset \in 1..MaxOffset
    /\ pixel_match_offset = configured_offset
    /\ header_image \in SeqsOf(RowValues, 1, MaxHeaderHeight)
    /\ footer_image \in SeqsOf(RowValues, 1, MaxFooterHeight)
    /\ header_last_hundred_rows = <<>>
    /\ i = 0
    /\ crop_row = 0
    /\ stitched_image = <<>>
    /\ st_pc = "start"
    /\ BrowserIdle
    /\ PaginatedIdle
    /\ FullPageIdle
    /\ ElementIdle
    /\ CallIdle

NextStitch ==
    \/ StitchBegin /\ UNCHANGED <<browser_vars, paginated_vars, fullpage_vars, element_vars, call_vars, s3_vars>>
    \/ ScanRow /\ UNCHANGED <<browser_vars, paginated_vars, fullpage_vars, element_vars, call_vars, s3_vars>>
    \/ ScanRowRaises /\ UNCHANGED <<browser_vars, paginated_vars, fullpage_vars, element_vars, call_vars, s3_vars>>
    \/ ScanEnd /\ UNCHANGED <<browser_vars, paginated_vars, fullpage_vars, element_vars, call_vars, s3_vars>>
    \/ CropAndPaste /\ UNCHANGED <<browser_vars, paginated_vars, fullpage_vars, element_vars, call_vars, s3_vars>>

SpecStitch == InitStitch /\ [][NextStitch]_vars

\* ------------------------------------------------------------------ browser
\* The farthest the window scrolls: the document's height less the viewport's.
MaxScroll(document_height, window_height) == Max(0, document_height - window_height)

\* sh.scroll_window_to_position(position): the browser clamps the target to
\* [0, MaxScroll].
ScrollWindowTo(position, document_height, window_height) ==
    Max(0, Min(position, MaxScroll(document_height, window_height)))

\* A sticky element of the list shows: it exists and is not hidden.
Shown(selectors) == \E k \in 1..Len(selectors) :
                        selectors[k] \in present /\ selectors[k] \notin hidden

\* The pages looked at: every row different from every other, every row the
\* same, and rows "a" with a row "b" at every fourth place.
PagePatterns == {"distinct", "plain", "marked"}

\* Row k (0-based) of the document itself.
PageRow(k) ==
    CASE page_pattern = "distinct" -> ToString(k)
      [] page_pattern = "plain" -> "a"
      [] page_pattern = "marked" -> IF k % 4 = 1 THEN "b" ELSE "a"

\* sh.get_screenshot_base64(), decoded.  A captured image is kept as what it
\* shows: the document rows upper..lower-1, taken from a screenshot of the rows
\* shot_upper..shot_lower-1 made with the window at `scroll`, the scrolled
\* element at `element` and the sticky header and footer painted or not.  The screenshot is the whole document, at
\* least one viewport tall; a mobile context gives the viewport alone.
RawScreenshot ==
    LET top == IF mobile THEN scroll_y ELSE 0
        bottom == IF mobile THEN scroll_y + client_height
                  ELSE Max(page_height, client_height)
    IN  [upper |-> top, lower |-> bottom, shot_upper |-> top, shot_lower |-> bottom,
         scroll |-> scroll_y, window |-> client_height, document |-> page_height,
         element |-> element_scroll_top,
         header |-> Shown(headers), footer |-> Shown(footers)]

\* The height of a captured image.
Height(image) == Max(0, image.lower - image.upper)

\* Line 261: image.crop(box) of a captured image, the box <<upper, lower>> in
\* the image's own rows.
CropImage(image, box) ==
    [image EXCEPT !.upper = image.upper + box[1], !.lower = image.upper + box[2]]

\* Line 280-281: numpy.asarray(image), the pixel rows of a captured image: a
\* sticky header over the viewport's top row, a sticky footer over its bottom
\* row, the page's own row elsewhere, nothing below the page's end, and black
\* where a crop box left the screenshot.
PixelRow(image, k) ==
    IF k < image.shot_upper \/ k >= image.shot_lower THEN "black"
    ELSE IF image.header /\ k = image.scroll THEN "header"
    ELSE IF image.footer /\ k = image.scroll + image.window - 1 THEN "footer"
    ELSE IF k >= image.document THEN "blank"
    ELSE PageRow(k)
PixelRows(image) == [k \in 1..Height(image) |-> PixelRow(image, image.upper + k - 1)]

\* --------------------------------------------------------- _get_image_data
\* Lines 258: crop_box = (0, scroll, width, scroll + height), as <<upper, lower>>.
ViewportCropBox(position, height) == <<position, position + height>>

\* Lines 243-264: the raw image on mobile; cropped to the viewport's band when
\* viewport_only; the raw image otherwise.  The scroll position and the
\* viewport size are read from the browser at the time of the capture.
GetImageData(only_viewport) ==
    IF mobile THEN RawScreenshot
    ELSE IF only_viewport
         THEN CropImage(RawScreenshot, ViewportCropBox(scroll_y, client_height))
         ELSE RawScreenshot

\* ------------------------------------------------ _capture_paginated_page
\* `value if value else default`: None and 0 are both falsy.
IsTruthy(optional) == Len(optional) > 0 /\ optional[1] # 0
ValueOrDefault(optional, default) == IF IsTruthy(optional) THEN optional[1] ELSE default

\* Line 220: the position the window is sent to for the next image.
ScrollTargetPaddingAsStep(position, height, pad) == position + pad
ScrollTarget(position, height, pad) == position + height - pad

\* Lines 128-129 with the whole page captured in place of the viewport.
CaptureSingleViewportWholePage == GetImageData(FALSE)

\* Lines 128-129: the viewport's image, saved to a file object.
CaptureSingleViewport == GetImageData(TRUE)

\* Lines 206-213: the padding in effect, the scroll to the top, the viewport read.
PgBegin ==
    /\ pg_pc = "start"
    /\ image_list' = <<>>
    /\ scroll_padding' = ValueOrDefault(padding_arg, self_scroll_padding)
    /\ scroll_y' = ScrollWindowTo(0, page_height, client_height)
    /\ current_scroll_position' = 0
    /\ viewport_height' = client_height
    /\ pg_pc' = "capture"
    /\ UNCHANGED <<page_height, page_pattern, client_height, mobile, present, hidden, hidden_before,
                   self_scroll_padding, padding_arg, new_scroll_position>>

\* Line 217: image_list.append(self._capture_single_viewport()).
PgCapture ==
    /\ pg_pc = "capture"
    /\ image_list' = Append(image_list, CaptureSingleViewport)
    /\ pg_pc' = "advance"
    /\ UNCHANGED <<browser_vars, self_scroll_padding, padding_arg, scroll_padding,
                   current_scroll_position, viewport_height, new_scroll_position>>

\* Lines 220-222: the advance and the read of the position reached.
PgAdvance ==
    /\ pg_pc = "advance"
    /\ scroll_y' = ScrollWindowTo(
                      ScrollTarget(current_scroll_position, viewport_height, scroll_padding),
                      page_height, client_height)
    /\ new_scroll_position' = scroll_y'
    /\ pg_pc' = "check"
    /\ UNCHANGED <<page_height, page_pattern, client_height, mobile, present, hidden, hidden_before,
                   self_scroll_padding, padding_arg, scroll_padding,
                   current_scroll_position, viewport_height, image_list>>

\* Lines 225-226 and 230: the position did not change; image_list is returned.
PgBreak ==
    /\ pg_pc = "check"
    /\ new_scroll_position = current_scroll_position
    /\ pg_pc' = "done"
    /\ UNCHANGED <<browser_vars, self_scroll_padding, padding_arg, scroll_padding,
                   current_scroll_position, viewport_height, new_scroll_position,
                   image_list>>

\* Lines 227-228: the position changed; go round again.
PgContinue ==
    /\ pg_pc = "check"
    /\ new_scroll_position # current_scroll_position
    /\ current_scroll_position' = new_scroll_position
    /\ pg_pc' = "capture"
    /\ UNCHANGED <<browser_vars, self_scroll_padding, padding_arg, scroll_padding,
                   viewport_height, new_scroll_position, image_list>>

\* The pages, viewports and paddings looked at: every small one, and the
\* page of height 3000 seen through a viewport of 800 with padding 100.
PageScenarios ==
    {<<hp, v, d>> : hp \in 1..MaxPageHeight, v \in 1..MaxViewport, d \in 0..MaxPadding}
        \cup {<<3000, 800, 100>>}
PaddingArgs(d) == {<<>>, <<0>>, <<d>>} \cup {<<p>> : p \in 0..MaxPadding}

InitPaginated ==
    /\ StitchIdle
    /\ CallIdle
    /\ FullPageIdle
    /\ ElementIdle
    /\ page_pattern = "distinct"
    /\ mobile \in BOOLEAN
    /\ present = {}
    /\ hidden = {}
    /\ hidden_before = {}
    /\ \E sc \in PageScenarios :
          /\ page_height = sc[1]
          /\ client_height = sc[2]
          /\ self_scroll_padding = sc[3]
          /\ padding_arg \in PaddingArgs(sc[3])
    /\ scroll_y \in {0, MaxScroll(page_height, client_height)}
    /\ scroll_padding = 0
    /\ current_scroll_position = 0
    /\ viewport_height = 0
    /\ new_scroll_position = 0
    /\ image_list = <<>>
    /\ pg_pc = "start"

NextPaginated ==
    \/ PgBegin /\ UNCHANGED <<stitch_vars, fullpage_vars, element_vars, call_vars, s3_vars>>
    \/ PgCapture /\ UNCHANGED <<stitch_vars, fullpage_vars, element_vars, call_vars, s3_vars>>
    \/ PgAdvance /\ UNCHANGED <<stitch_vars, fullpage_vars, element_vars, call_vars, s3_vars>>
    \/ PgBreak /\ UNCHANGED <<stitch_vars, fullpage_vars, element_vars, call_vars, s3_vars>>
    \/ PgContinue /\ UNCHANGED <<stitch_vars, fullpage_vars, element_vars, call_vars, s3_vars>>

SpecPaginated == InitPaginated /\ [][NextPaginated]_vars

\* The call runs on: every browser round trip returns.
SpecPaginatedFair == SpecPaginated /\ WF_vars(NextPaginated)

\* Lines 210, 213, 217 and 220-222: the scroll, the read of the viewport, the
\* viewport's capture or the read of the position raises, and the exception
\* leaves _capture_paginated_page, which has no handler.
PgRaises ==
    /\ pg_pc \in {"start", "capture", "advance"}
    /\ \E e \in Failures : exception' = e
    /\ pg_pc' = "raised"
    /\ UNCHANGED <<browser_vars, self_scroll_padding, padding_arg, scroll_padding,
                   current_scroll_position, viewport_height, new_scroll_position,
                   image_list, outcome>>

\* ------------------------------------------- _hide_elements, _show_elements
\* sh.hide_element(selector): hides the element; ElementError when there is no
\* such element and ElementNotVisibleError when it is hidden already.
HideElement(selector, hid) ==
    IF selector \in present /\ selector \notin hid THEN hid \cup {selector} ELSE hid
HideElementRaises(selector, hid) ==
    IF selector \notin present
    THEN [class |-> "ElementError", msg |-> <<"no such element", selector>>,
          stacktrace |-> <<"helper stacktrace">>, details |-> <<>>]
    ELSE IF selector \in hid
    THEN [class |-> "ElementNotVisibleError", msg |-> <<"not visible", selector>>,
          stacktrace |-> <<"helper stacktrace">>, details |-> <<>>]
    ELSE NoException

\* sh.show_element(selector): shows the element; ElementError when there is no
\* such element.
ShowElement(selector, hid) == hid \ {selector}
ShowElementRaises(selector, hid) ==
    IF selector \notin present
    THEN [class |-> "ElementError", msg |-> <<"no such element", selector>>,
          stacktrace |-> <<"helper stacktrace">>, details |-> <<>>]
    ELSE NoException

\* What the browser does to one sweep: nothing, or a failure of another kind
\* (not one of the two above) at the toggle of the selector in place `at`.
NoFault == [at |-> 0, exception |-> NoException]
Faults(css_selectors) ==
    {NoFault} \cup {[at |-> k, exception |-> e] : k \in 1..Len(css_selectors), e \in Failures}

\* Lines 182-185: the except clauses of _hide_elements.
HideSwallowsNotVisibleOnly == {"ElementNotVisibleError"}
HideSwallows == {"ElementNotVisibleError", "ElementError"}

\* Lines 198-199: the except clause of _show_elements.
ShowSwallows == {"ElementError"}

\* The exception is caught by one of the clauses (and passed over).
Swallowed(clauses, e) == \E clause \in clauses : Catches(clause, e)

\* Lines 178-185: the selectors from place n on, in turn.  The result is what
\* is hidden after, how many selectors were tried, and the exception that left
\* the loop.
HideElementsSweepingOn(css_selectors, hid, fault, n) ==
    [hidden |-> hid \cup {css_selectors[k] : k \in {j \in n..Len(css_selectors) :
                                                      css_selectors[j] \in present}},
     tried |-> IF fault.at = 0 THEN Len(css_selectors) ELSE fault.at,
     raised |-> fault.exception]
RECURSIVE HideElements(_, _, _, _)
HideElements(css_selectors, hid, fault, n) ==
    IF n > Len(css_selectors)
    THEN [hidden |-> hid, tried |-> Len(css_selectors), raised |-> NoException]
    ELSE LET selector == css_selectors[n]
             e == IF fault.at = n THEN fault.exception
                  ELSE HideElementRaises(selector, hid)
         IN  IF e = NoException
             THEN HideElements(css_selectors, HideElement(selector, hid), fault, n + 1)
             ELSE IF Swallowed(HideSwallows, e)
             THEN HideElements(css_selectors, hid, fault, n + 1)
             ELSE [hidden |-> hid, tried |-> n, raised |-> e]

\* Lines 194-199: the selectors from place n on, in turn.
RECURSIVE ShowElements(_, _, _, _)
ShowElements(css_selectors, hid, fault, n) ==
    IF n > Len(css_selectors)
    THEN [hidden |-> hid, tried |-> Len(css_selectors), raised |-> NoException]
    ELSE LET selector == css_selectors[n]
             e == IF fault.at = n THEN fault.exception
                  ELSE ShowElementRaises(selector, hid)
         IN  IF e = NoException
             THEN ShowElements(css_selectors, ShowElement(selector, hid), fault, n + 1)
             ELSE IF Swallowed(ShowSwallows, e)
             THEN ShowElements(css_selectors, hid, fault, n + 1)
             ELSE [hidden |-> hid, tried |-> n, raised |-> e]

\* The calls a sweep makes, one per selector, in list order.
SweepCalls(operation, css_selectors) ==
    [k \in 1..Len(css_selectors) |-> <<operation, css_selectors[k]>>]

\* The calls of a sweep that tried the first `tried` selectors.
SweepCallsTried(operation, css_selectors, tried) ==
    SweepCalls(operation, SubSeq(css_selectors, 1, tried))

\* ------------------------------------------------------ _capture_full_page
\* Lines 148 and 164: the position that stands for the document's bottom.
ScrollToBottomPosition == 40000

\* A page so tall that its bottom lies below that position.
TallPageHeight == ScrollToBottomPosition + MaxViewport + 1

\* The variables a step of _capture_full_page leaves alone unless it says so.
FpKeep(changed) ==
    /\ IF "scroll_y" \in changed THEN TRUE ELSE UNCHANGED scroll_y
    /\ IF "hidden" \in changed THEN TRUE ELSE UNCHANGED hidden
    /\ IF "header_image" \in changed THEN TRUE ELSE UNCHANGED header_image
    /\ IF "footer_image" \in changed THEN TRUE ELSE UNCHANGED footer_image
    /\ IF "image_data" \in changed THEN TRUE ELSE UNCHANGED image_data
    /\ IF "st_pc" \in changed THEN TRUE ELSE UNCHANGED st_pc
    /\ IF "exception" \in changed THEN TRUE ELSE UNCHANGED exception
    /\ UNCHANGED <<page_height, page_pattern, client_height, mobile, present, hidden_before,
                   headers, footers, outcome, s3_vars,
                   configured_offset, pixel_match_offset, header_last_hundred_rows, i,
                   crop_row, stitched_image>>

\* Line 139: both lists are non-empty.
BothSticky == headers # <<>> /\ footers # <<>>

\* Line 141.
FpScrollToTop ==
    /\ fp_pc = "start" /\ BothSticky
    /\ scroll_y' = ScrollWindowTo(0, page_height, client_height)
    /\ calls' = Append(calls, <<"scroll_window_to_position", "0">>)
    /\ fp_pc' = "hide_footers"
    /\ FpKeep({"scroll_y"})

\* Line 142.
FpHideFooters ==
    /\ fp_pc = "hide_footers"
    /\ \E fault \in Faults(footers) :
          LET sweep == HideElements(footers, hidden, fault, 1)
          IN  /\ hidden' = sweep.hidden
              /\ calls' = calls \o SweepCallsTried("hide_element", footers, sweep.tried)
              /\ exception' = sweep.raised
              /\ fp_pc' = IF sweep.raised = NoException THEN "capture_header" ELSE "raised"
    /\ FpKeep({"hidden", "exception"})

\* Line 143.
FpCaptureHeader ==
    /\ fp_pc = "capture_header"
    /\ header_image' = PixelRows(GetImageData(TRUE))
    /\ calls' = Append(calls, <<"_get_image_data", "viewport_only">>)
    /\ fp_pc' = "show_footers"
    /\ FpKeep({"header_image"})

\* Line 146.
FpShowFootersSkipped ==
    /\ fp_pc = "show_footers"
    /\ calls' = calls
    /\ fp_pc' = "scroll_bottom"
    /\ FpKeep({})
FpShowFooters ==
    /\ fp_pc = "show_footers"
    /\ \E fault \in Faults(footers) :
          LET sweep == ShowElements(footers, hidden, fault, 1)
          IN  /\ hidden' = sweep.hidden
              /\ calls' = calls \o SweepCallsTried("show_element", footers, sweep.tried)
              /\ exception' = sweep.raised
              /\ fp_pc' = IF sweep.raised = NoException THEN "scroll_bottom" ELSE "raised"
    /\ FpKeep({"hidden", "exception"})

\* Line 148.
FpScrollToBottom ==
    /\ fp_pc = "scroll_bottom"
    /\ scroll_y' = ScrollWindowTo(ScrollToBottomPosition, page_height, client_height)
    /\ calls' = Append(calls, <<"scroll_window_to_position", "40000">>)
    /\ fp_pc' = "hide_headers"
    /\ FpKeep({"scroll_y"})

\* Line 149.
FpHideHeaders ==
    /\ fp_pc = "hide_headers"
    /\ \E fault \in Faults(headers) :
          LET sweep == HideElements(headers, hidden, fault, 1)
          IN  /\ hidden' = sweep.hidden
              /\ calls' = calls \o SweepCallsTried("hide_element", headers, sweep.tried)
              /\ exception' = sweep.raised
              /\ fp_pc' = IF sweep.raised = NoException THEN "capture_footer" ELSE "raised"
    /\ FpKeep({"hidden", "exception"})

\* Line 150.
FpCaptureFooter ==
    /\ fp_pc = "capture_footer"
    /\ footer_image' = PixelRows(GetImageData(FALSE))
    /\ calls' = Append(calls, <<"_get_image_data", "full">>)
    /\ fp_pc' = "show_headers"
    /\ FpKeep({"footer_image"})

\* Line 153.
FpShowHeaders ==
    /\ fp_pc = "show_headers"
    /\ \E fault \in Faults(headers) :
          LET sweep == ShowElements(headers, hidden, fault, 1)
          IN  /\ hidden' = sweep.hidden
              /\ calls' = calls \o SweepCallsTried("show_element", headers, sweep.tried)
              /\ exception' = sweep.raised
              /\ fp_pc' = IF sweep.raised = NoException THEN "stitch" ELSE "raised"
    /\ FpKeep({"hidden", "exception"})

\* Line 156: the call of _crop_and_stitch_image.
FpStitch ==
    /\ fp_pc = "stitch"
    /\ st_pc' = "start"
    /\ calls' = Append(calls, <<"_crop_and_stitch_image", "">>)
    /\ fp_pc' = "stitching"
    /\ FpKeep({"st_pc"})

\* Line 156: _crop_and_stitch_image returned the stitched image.
FpStitched ==
    /\ fp_pc = "stitching" /\ st_pc = "done"
    /\ image_data' = stitched_image
    /\ st_pc' = "idle"
    /\ calls' = calls
    /\ fp_pc' = "save"
    /\ FpKeep({"image_data", "st_pc"})

\* Lines 156 and 340-342: _crop_and_stitch_image raised: its handler turned
\* the IndexError of the scan into a ScreenshotException.
FpStitchRaised ==
    /\ fp_pc = "stitching" /\ st_pc = "failed"
    /\ st_pc' = "idle"
    /\ calls' = calls
    /\ exception' = StitchHandler([class |-> "IndexError",
                                   msg |-> <<"index is out of bounds">>,
                                   stacktrace |-> <<>>, details |-> <<>>])
    /\ fp_pc' = "raised"
    /\ FpKeep({"st_pc", "exception"})

\* Lines 157-160: headers alone; scroll to the top.
FpHeadersOnly ==
    /\ fp_pc = "start" /\ headers # <<>> /\ footers = <<>>
    /\ scroll_y' = ScrollWindowTo(0, page_height, client_height)
    /\ calls' = Append(calls, <<"scroll_window_to_position", "0">>)
    /\ fp_pc' = "capture"
    /\ FpKeep({"scroll_y"})

\* Lines 162-165: footers alone; scroll to the bottom.
FpFootersOnly ==
    /\ fp_pc = "start" /\ headers = <<>> /\ footers # <<>>
    /\ scroll_y' = ScrollWindowTo(ScrollToBottomPosition, page_height, client_height)
    /\ calls' = Append(calls, <<"scroll_window_to_position", "40000">>)
    /\ fp_pc' = "capture"
    /\ FpKeep({"scroll_y"})

\* Lines 161, 166 and 167-168: the page as it stands.
FpCapture ==
    /\ \/ fp_pc = "capture"
       \/ fp_pc = "start" /\ headers = <<>> /\ footers = <<>>
    /\ image_data' = GetImageData(FALSE)
    /\ calls' = Append(calls, <<"_get_image_data", "full">>)
    /\ fp_pc' = "save"
    /\ FpKeep({"image_data"})

\* Line 170: the image saved to a file object, which is returned.
FpCreateImageFile ==
    /\ fp_pc = "save"
    /\ calls' = Append(calls, <<"_create_image_file", "">>)
    /\ fp_pc' = "done"
    /\ FpKeep({})

\* Lines 141, 143, 148, 150, 159-161, 164-166, 168 and 170: the scroll, the
\* screenshot, its decoding or crop, or the saving of the image raises, and
\* the exception leaves _capture_full_page, which has no handler.
FpRaises ==
    /\ fp_pc \in {"start", "capture_header", "scroll_bottom", "capture_footer",
                  "capture", "save"}
    /\ \E e \in Failures : exception' = e
    /\ calls' = calls
    /\ fp_pc' = "raised"
    /\ FpKeep({"exception"})

\* The sticky elements a Screenshot may be configured with, and the elements
\* a page may hold.
HeaderLists == {<<>>, <<"h1">>, <<"h1", "h2">>}
FooterLists == {<<>>, <<"f1">>}
Selectors == {"h1", "h2", "f1"}

\* Any small page or the tall one in a browser, some of the elements hidden
\* already.
InitBrowser ==
    /\ page_height \in (1..MaxPageHeight) \cup {TallPageHeight}
    /\ page_pattern \in PagePatterns
    /\ client_height \in 1..MaxViewport
    /\ scroll_y \in {0, MaxScroll(page_height, client_height)}
    /\ mobile \in BOOLEAN
    /\ present \in SUBSET Selectors
    /\ hidden \in {{}} \cup {{e} : e \in present}
    /\ hidden_before = hidden

\* A Screenshot with any sticky lists in front of any such page; the tall page
\* is looked at without headers, where no stitch scans its rows.
InitFullPage ==
    /\ InitBrowser
    /\ CallIdle
    /\ PaginatedIdle
    /\ ElementIdle
    /\ configured_offset \in {1, MaxOffset}
    /\ pixel_match_offset = configured_offset
    /\ header_image = <<>>
    /\ footer_image = <<>>
    /\ header_last_hundred_rows = <<>>
    /\ i = 0
    /\ crop_row = 0
    /\ stitched_image = <<>>
    /\ st_pc = "idle"
    /\ headers \in HeaderLists
    /\ footers \in FooterLists
    /\ page_height = TallPageHeight => headers = <<>>
    /\ calls = <<>>
    /\ image_data = <<>>
    /\ fp_pc = "start"

NextFullPage ==
    \/ FpScrollToTop /\ UNCHANGED <<paginated_vars, element_vars>>
    \/ FpHideFooters /\ UNCHANGED <<paginated_vars, element_vars>>
    \/ FpCaptureHeader /\ UNCHANGED <<paginated_vars, element_vars>>
    \/ FpShowFooters /\ UNCHANGED <<paginated_vars, element_vars>>
    \/ FpScrollToBottom /\ UNCHANGED <<paginated_vars, element_vars>>
    \/ FpHideHeaders /\ UNCHANGED <<paginated_vars, element_vars>>
    \/ FpCaptureFooter /\ UNCHANGED <<paginated_vars, element_vars>>
    \/ FpShowHeaders /\ UNCHANGED <<paginated_vars, element_vars>>
    \/ FpStitch /\ UNCHANGED <<paginated_vars, element_vars>>
    \/ FpStitched /\ UNCHANGED <<paginated_vars, element_vars>>
    \/ FpStitchRaised /\ UNCHANGED <<paginated_vars, element_vars>>
    \/ FpHeadersOnly /\ UNCHANGED <<paginated_vars, element_vars>>
    \/ FpFootersOnly /\ UNCHANGED <<paginated_vars, element_vars>>
    \/ FpCapture /\ UNCHANGED <<paginated_vars, element_vars>>
    \/ FpCreateImageFile /\ UNCHANGED <<paginated_vars, element_vars>>
    \/ FpRaises /\ UNCHANGED <<paginated_vars, element_vars>>
    \/ StitchBegin /\ UNCHANGED <<browser_vars, paginated_vars, fullpage_vars, element_vars, call_vars, s3_vars>>
    \/ ScanRow /\ UNCHANGED <<browser_vars, paginated_vars, fullpage_vars, element_vars, call_vars, s3_vars>>
    \/ ScanRowRaises /\ UNCHANGED <<browser_vars, paginated_vars, fullpage_vars, element_vars, call_vars, s3_vars>>
    \/ ScanEnd /\ UNCHANGED <<browser_vars, paginated_vars, fullpage_vars, element_vars, call_vars, s3_vars>>
    \/ CropAndPaste /\ UNCHANGED <<browser_vars, paginated_vars, fullpage_vars, element_vars, call_vars, s3_vars>>

SpecFullPage == InitFullPage /\ [][NextFullPage]_vars

\* ----------------------------------------------- capture_scrolling_element
\* sh.scroll_an_element(css_selector, scroll_padding=padding): the element
\* moves forward by its height less the padding, as far as its content goes.
ScrollAnElement(position, amount) ==
    Max(0, Min(position + (element_height - amount),
               MaxScroll(element_scroll_height, element_height)))

\* sh.get_is_element_scroll_position_at_bottom(css_selector).
ElementAtBottom == element_scroll_top + element_height >= element_scroll_height

\* The variables a step of capture_scrolling_element leaves alone unless it
\* says so.
ElKeep(changed) ==
    /\ IF "image_list" \in changed THEN TRUE ELSE UNCHANGED image_list
    /\ IF "element_scroll_top" \in changed THEN TRUE ELSE UNCHANGED element_scroll_top
    /\ IF "element_scrolls" \in changed THEN TRUE ELSE UNCHANGED element_scrolls
    /\ IF "padding" \in changed THEN TRUE ELSE UNCHANGED padding
    /\ IF "fullpage" \in changed THEN TRUE ELSE UNCHANGED <<calls, fp_pc>>
    /\ IF "exception" \in changed THEN TRUE ELSE UNCHANGED exception
    /\ IF "outcome" \in changed THEN TRUE ELSE UNCHANGED outcome
    /\ UNCHANGED <<stitch_vars, browser_vars, headers, footers, image_data, s3_vars,
                   self_scroll_padding, padding_arg, scroll_padding,
                   current_scroll_position, viewport_height, new_scroll_position, pg_pc,
                   element_scroll_height, element_height, scroll_padding_arg,
                   viewport_only>>

\* Lines 88-93: the padding in effect, the empty list, the element scrolled
\* to its top.
ElBegin ==
    /\ el_pc = "start"
    /\ padding' = ValueOrDefault(scroll_padding_arg, self_scroll_padding)
    /\ image_list' = <<>>
    /\ element_scroll_top' = 0
    /\ el_pc' = "capture"
    /\ ElKeep({"padding", "image_list", "element_scroll_top"})

\* Lines 97-98: the viewport's image joins the list.
ElCaptureViewportTwice ==
    /\ el_pc = "capture" /\ viewport_only
    /\ image_list' = image_list \o <<CaptureSingleViewport, CaptureSingleViewport>>
    /\ el_pc' = "check"
    /\ ElKeep({"image_list"})
ElCaptureViewport ==
    /\ el_pc = "capture" /\ viewport_only
    /\ image_list' = Append(image_list, CaptureSingleViewport)
    /\ el_pc' = "check"
    /\ ElKeep({"image_list"})

\* Lines 99-100: _capture_full_page is called.
ElCaptureFullPage ==
    /\ el_pc = "capture" /\ ~viewport_only
    /\ fp_pc' = "start"
    /\ calls' = <<>>
    /\ el_pc' = "capturing"
    /\ ElKeep({"fullpage"})

\* Line 100: _capture_full_page returned; its image joins the list.
ElFullPageCaptured ==
    /\ el_pc = "capturing" /\ fp_pc = "done"
    /\ image_list' = Append(image_list, image_data)
    /\ fp_pc' = "idle"
    /\ calls' = calls
    /\ el_pc' = "check"
    /\ ElKeep({"image_list", "fullpage"})

\* Line 100: _capture_full_page raised.
ElFullPageRaised ==
    /\ el_pc = "capturing" /\ fp_pc = "raised"
    /\ fp_pc' = "idle"
    /\ calls' = calls
    /\ el_pc' = "raised"
    /\ ElKeep({"fullpage"})

\* Lines 93, 98, 102 and 107: the scroll to the top, the viewport's capture,
\* the bottom check or the scroll advance raises.
ElRaises ==
    /\ \/ el_pc = "start"
       \/ el_pc = "capture" /\ viewport_only
       \/ el_pc = "check"
    /\ \E e \in Failures : exception' = e
    /\ el_pc' = "raised"
    /\ ElKeep({"exception"})

\* Lines 111-120: the handlers of capture_scrolling_element raise a
\* SeleniumError or a ScreenshotException; no list is returned.
ElHandlerReturningPartial ==
    /\ el_pc = "raised" /\ outcome = NoOutcome
    /\ outcome' = Returned(image_list)
    /\ UNCHANGED el_pc
    /\ ElKeep({"outcome"})
ElHandler ==
    /\ el_pc = "raised" /\ outcome = NoOutcome
    /\ outcome' = Raised(CaptureScrollingElementHandler(exception))
    /\ UNCHANGED el_pc
    /\ ElKeep({"outcome"})

\* Lines 102-104 and 109 with the break taken wherever the element is.
ElBreakAnywhere ==
    /\ el_pc = "check"
    /\ el_pc' = "done"
    /\ outcome' = Returned(image_list)
    /\ ElKeep({"outcome"})

\* Lines 102-104 and 109: at the bottom; image_list is returned.
ElBreak ==
    /\ el_pc = "check"
    /\ ElementAtBottom
    /\ el_pc' = "done"
    /\ outcome' = Returned(image_list)
    /\ ElKeep({"outcome"})

\* Lines 105-107: not at the bottom; the element is scrolled on.
ElScroll ==
    /\ el_pc = "check"
    /\ ~ElementAtBottom
    /\ element_scrolls < MaxElementScrolls
    /\ element_scroll_top' = ScrollAnElement(element_scroll_top, padding)
    /\ element_scrolls' = element_scrolls + 1
    /\ el_pc' = "capture"
    /\ ElKeep({"element_scroll_top", "element_scrolls"})

\* An element of any small size in a short or a long plain page, captured by
\* viewport or by full page, with sticky elements or without.
InitElement ==
    /\ element_scroll_height \in 1..MaxElementScrollHeight
    /\ element_height \in 1..MaxElementHeight
    /\ element_scroll_top \in {0, MaxScroll(element_scroll_height, element_height)}
    /\ element_scrolls = 0
    /\ self_scroll_padding \in 0..MaxPadding
    /\ scroll_padding_arg \in PaddingArgs(self_scroll_padding)
    /\ viewport_only \in BOOLEAN
    /\ padding = 0
    /\ el_pc = "start"
    /\ client_height = MaxViewport
    /\ page_height \in {client_height - 1, client_height + 1}
    /\ page_pattern = "plain"
    /\ scroll_y = 0
    /\ mobile = FALSE
    /\ present = {"f1"}
    /\ hidden = {}
    /\ hidden_before = {}
    /\ headers \in {<<>>, <<"h1">>}
    /\ footers \in FooterLists
    /\ calls = <<>>
    /\ image_data = <<>>
    /\ fp_pc = "idle"
    /\ configured_offset = MaxOffset
    /\ pixel_match_offset = configured_offset
    /\ header_image = <<>>
    /\ footer_image = <<>>
    /\ header_last_hundred_rows = <<>>
    /\ i = 0
    /\ crop_row = 0
    /\ stitched_image = <<>>
    /\ st_pc = "idle"
    /\ padding_arg = <<>>
    /\ scroll_padding = 0
    /\ current_scroll_position = 0
    /\ viewport_height = 0
    /\ new_scroll_position = 0
    /\ image_list = <<>>
    /\ pg_pc = "idle"
    /\ CallIdle

NextElement ==
    \/ ElBegin
    \/ ElCaptureViewport
    \/ ElCaptureFullPage
    \/ ElFullPageCaptured
    \/ ElFullPageRaised
    \/ ElRaises
    \/ ElHandler
    \/ ElBreak
    \/ ElScroll
    \/ NextFullPage

SpecElement == InitElement /\ [][NextElement]_vars

\* The steps of a call during which the browser does what it is asked: no
\* screenshot, scroll or bottom check fails, and a visibility toggle fails
\* only in the ways the sweeps swallow. The stitch may still raise.
NextElementLoop ==
    \/ ElBegin
    \/ ElCaptureViewport
    \/ ElCaptureFullPage
    \/ ElFullPageCaptured
    \/ ElFullPageRaised
    \/ ElHandler
    \/ ElBreak
    \/ ElScroll
    \/ FpScrollToTop /\ UNCHANGED <<paginated_vars, element_vars>>
    \/ FpCaptureHeader /\ UNCHANGED <<paginated_vars, element_vars>>
    \/ FpScrollToBottom /\ UNCHANGED <<paginated_vars, element_vars>>
    \/ FpCaptureFooter /\ UNCHANGED <<paginated_vars, element_vars>>
    \/ FpStitch /\ UNCHANGED <<paginated_vars, element_vars>>
    \/ FpStitched /\ UNCHANGED <<paginated_vars, element_vars>>
    \/ FpStitchRaised /\ UNCHANGED <<paginated_vars, element_vars>>
    \/ FpHeadersOnly /\ UNCHANGED <<paginated_vars, element_vars>>
    \/ FpFootersOnly /\ UNCHANGED <<paginated_vars, element_vars>>
    \/ FpCapture /\ UNCHANGED <<paginated_vars, element_vars>>
    \/ FpCreateImageFile /\ UNCHANGED <<paginated_vars, element_vars>>
    \/ FpHideFooters /\ fp_pc' # "raised" /\ UNCHANGED <<paginated_vars, element_vars>>
    \/ FpShowFooters /\ fp_pc' # "raised" /\ UNCHANGED <<paginated_vars, element_vars>>
    \/ FpHideHeaders /\ fp_pc' # "raised" /\ UNCHANGED <<paginated_vars, element_vars>>
    \/ FpShowHeaders /\ fp_pc' # "raised" /\ UNCHANGED <<paginated_vars, element_vars>>
    \/ StitchBegin /\ UNCHANGED <<browser_vars, paginated_vars, fullpage_vars, element_vars, call_vars, s3_vars>>
    \/ ScanRow /\ UNCHANGED <<browser_vars, paginated_vars, fullpage_vars, element_vars, call_vars, s3_vars>>
    \/ ScanRowRaises /\ UNCHANGED <<browser_vars, paginated_vars, fullpage_vars, element_vars, call_vars, s3_vars>>
    \/ ScanEnd /\ UNCHANGED <<browser_vars, paginated_vars, fullpage_vars, element_vars, call_vars, s3_vars>>
    \/ CropAndPaste /\ UNCHANGED <<browser_vars, paginated_vars, fullpage_vars, element_vars, call_vars, s3_vars>>

\* The call's steps are taken one after another until none is left: no step
\* that can be taken is put off for ever.
SpecElementFair == InitElement /\ [][NextElementLoop]_vars /\ WF_vars(NextElementLoop)

\* ------------------------------------------------------------ capture_page
\* Lines 59-64: capture_page hands back what the strategy returned: the list
\* of _capture_paginated_page or the file of _capture_full_page.
CapturePageReturns ==
    /\ el_pc = "idle" /\ outcome = NoOutcome
    /\ pg_pc = "done" \/ fp_pc = "done"
    /\ outcome' = Returned(IF pg_pc = "done" THEN image_list ELSE image_data)
    /\ UNCHANGED <<stitch_vars, browser_vars, paginated_vars, fullpage_vars,
                   element_vars, exception, s3_vars>>

\* Lines 66-72: the strategy raised; the handlers of capture_page raise a
\* SeleniumError or a ScreenshotException.
CapturePageRaises ==
    /\ el_pc = "idle" /\ outcome = NoOutcome
    /\ pg_pc = "raised" \/ fp_pc = "raised"
    /\ outcome' = Raised(CapturePageHandler(exception))
    /\ UNCHANGED <<stitch_vars, browser_vars, paginated_vars, fullpage_vars,
                   element_vars, exception, s3_vars>>

\* A call of capture_page on a paginated Screenshot or on one that is not, or
\* a call of capture_scrolling_element, in a browser that may fail.
InitCapture == InitPaginated \/ InitFullPage \/ InitElement

NextCapture ==
    \/ NextPaginated
    \/ PgRaises /\ UNCHANGED <<stitch_vars, fullpage_vars, element_vars, s3_vars>>
    \/ NextElement
    \/ CapturePageReturns
    \/ CapturePageRaises

SpecCapture == InitCapture /\ [][NextCapture]_vars

\* ------------------------------------------------- a window that is resized
\* The viewport's height changes, once, while a paginated capture runs (the
\* window is resized, a toolbar comes or goes); the browser keeps the scroll
\* position within the document.
ViewportResizes ==
    /\ pg_pc \in {"capture", "advance"}
    /\ page_height <= MaxPageHeight
    /\ client_height = viewport_height
    /\ \E height \in (1..MaxViewport) \ {client_height} :
          /\ client_height' = height
          /\ scroll_y' = ScrollWindowTo(scroll_y, page_height, height)
    /\ UNCHANGED <<page_height, page_pattern, mobile, present, hidden, hidden_before,
                   stitch_vars, paginated_vars, fullpage_vars, element_vars, call_vars, s3_vars>>

NextPaginatedResizing ==
    \/ NextPaginated
    \/ ViewportResizes

SpecPaginatedResizing == InitPaginated /\ [][NextPaginatedResizing]_vars

\* ---------------------------------------------------------------- S3Client
\* The methods of the client that begin with self.connect().
S3Methods == {"connect", "store_file", "get_file", "verify_file"}

\* The method running innermost.
S3Running == s3_stack[Len(s3_stack)]

\* The stack without its innermost method.
S3Popped == SubSeq(s3_stack, 1, Len(s3_stack) - 1)

\* A caller calls one of the methods; lines 56, 92, 118: each of store_file,
\* get_file and verify_file begins with self.connect().
S3Call ==
    /\ s3_pc = "idle"
    /\ s3_calls < MaxS3Calls
    /\ \E method \in S3Methods : s3_stack' = <<method>>
    /\ s3_calls' = s3_calls + 1
    /\ s3_outcome' = "none"
    /\ s3_pc' = "connect"
    /\ UNCHANGED <<bucket_name, s3_connection, bucket, connections_opened>>

\* Lines 24-25: connect returns at once when there is a connection.
S3ConnectReturnsEarly ==
    /\ s3_pc = "connect"
    /\ s3_connection # <<>>
    /\ s3_pc' = "connected"
    /\ UNCHANGED <<bucket_name, s3_connection, bucket, connections_opened, s3_stack,
                   s3_outcome, s3_calls>>

\* Lines 29-30: boto constructs a connection, which is assigned, or raises.
S3OpenConnection ==
    /\ s3_pc = "connect"
    /\ s3_connection = <<>>
    /\ \/ /\ connections_opened' = connections_opened + 1
          /\ s3_connection' = <<connections_opened + 1>>
          /\ s3_pc' = "get_bucket"
       \/ /\ s3_pc' = "failed"
          /\ UNCHANGED <<s3_connection, connections_opened>>
    /\ UNCHANGED <<bucket_name, bucket, s3_stack, s3_outcome, s3_calls>>

\* Lines 31-32: the connection hands out the bucket, which is assigned, or
\* raises.
S3GetBucket ==
    /\ s3_pc = "get_bucket"
    /\ \/ /\ bucket' = <<[connection |-> s3_connection[1], name |-> bucket_name]>>
          /\ s3_pc' = "connected"
       \/ /\ s3_pc' = "failed"
          /\ UNCHANGED bucket
    /\ UNCHANGED <<bucket_name, s3_connection, connections_opened, s3_stack, s3_outcome,
                   s3_calls>>

\* Lines 34-42 with the connection kept: only the bucket is reset.
S3ConnectFailedKeepingConnection ==
    /\ s3_pc = "failed"
    /\ bucket' = <<>>
    /\ IF Len(s3_stack) = 1
       THEN /\ s3_stack' = <<>>
            /\ s3_pc' = "idle"
            /\ s3_outcome' = "raised"
       ELSE /\ s3_stack' = S3Popped
            /\ s3_pc' = "verified"
            /\ UNCHANGED s3_outcome
    /\ UNCHANGED <<bucket_name, s3_connection, connections_opened, s3_calls>>

\* Lines 34-42: both fields are reset and an Exception is raised. Lines 56, 92
\* and 118 call connect outside the try, so the method called raises as well;
\* a verify_file called at line 95 raises into the try of get_file.
S3ConnectFailed ==
    /\ s3_pc = "failed"
    /\ s3_connection' = <<>>
    /\ bucket' = <<>>
    /\ IF Len(s3_stack) = 1
       THEN /\ s3_stack' = <<>>
            /\ s3_pc' = "idle"
            /\ s3_outcome' = "raised"
       ELSE /\ s3_stack' = S3Popped
            /\ s3_pc' = "verified"
            /\ UNCHANGED s3_outcome
    /\ UNCHANGED <<bucket_name, connections_opened, s3_calls>>

\* Line 25 or the end of line 32: connect, called by the caller, returns.
S3ConnectReturns ==
    /\ s3_pc = "connected"
    /\ s3_stack = <<"connect">>
    /\ s3_stack' = <<>>
    /\ s3_pc' = "idle"
    /\ s3_outcome' = "returned"
    /\ UNCHANGED <<bucket_name, s3_connection, bucket, connections_opened, s3_calls>>

\* Lines 58-81: store_file stores in self.bucket and returns, a failure
\* logged and swallowed.
S3StoreFile ==
    /\ s3_pc = "connected"
    /\ s3_stack = <<"store_file">>
    /\ s3_stack' = <<>>
    /\ s3_pc' = "idle"
    /\ s3_outcome' = "returned"
    /\ UNCHANGED <<bucket_name, s3_connection, bucket, connections_opened, s3_calls>>

\* Line 95: get_file calls verify_file, which begins with self.connect().
S3GetFileVerifies ==
    /\ s3_pc = "connected"
    /\ s3_stack = <<"get_file">>
    /\ s3_stack' = <<"get_file", "verify_file">>
    /\ s3_pc' = "connect"
    /\ UNCHANGED <<bucket_name, s3_connection, bucket, connections_opened, s3_outcome,
                   s3_calls>>

\* Lines 119-129: verify_file looks the key up in self.bucket and returns, to
\* the caller or to get_file.
S3VerifyFile ==
    /\ s3_pc = "connected"
    /\ S3Running = "verify_file"
    /\ s3_stack' = S3Popped
    /\ IF Len(s3_stack) = 1
       THEN s3_pc' = "idle" /\ s3_outcome' = "returned"
       ELSE s3_pc' = "verified" /\ UNCHANGED s3_outcome
    /\ UNCHANGED <<bucket_name, s3_connection, bucket, connections_opened, s3_calls>>

\* Lines 96-106: get_file reads the key or finds none, and returns, a failure
\* logged and swallowed.
S3GetFile ==
    /\ s3_pc = "verified"
    /\ s3_stack' = <<>>
    /\ s3_pc' = "idle"
    /\ s3_outcome' = "returned"
    /\ UNCHANGED <<bucket_name, s3_connection, bucket, connections_opened, s3_calls>>

\* Lines 10-20: a new client has neither a connection nor a bucket.
InitS3 ==
    /\ StitchIdle
    /\ BrowserIdle
    /\ FullPageIdle
    /\ ElementIdle
    /\ PaginatedIdle
    /\ exception = NoException
    /\ outcome = NoOutcome
    /\ bucket_name \in {"bucket", "other bucket"}
    /\ s3_connection = <<>>
    /\ bucket = <<>>
    /\ connections_opened = 0
    /\ s3_stack = <<>>
    /\ s3_pc = "idle"
    /\ s3_outcome = "none"
    /\ s3_calls = 0

NextS3 ==
    \/ S3Call /\ UNCHANGED <<stitch_vars, browser_vars, paginated_vars, fullpage_vars, element_vars, call_vars>>
    \/ S3ConnectReturnsEarly /\ UNCHANGED <<stitch_vars, browser_vars, paginated_vars, fullpage_vars, element_vars, call_vars>>
    \/ S3OpenConnection /\ UNCHANGED <<stitch_vars, browser_vars, paginated_vars, fullpage_vars, element_vars, call_vars>>
    \/ S3GetBucket /\ UNCHANGED <<stitch_vars, browser_vars, paginated_vars, fullpage_vars, element_vars, call_vars>>
    \/ S3ConnectFailed /\ UNCHANGED <<stitch_vars, browser_vars, paginated_vars, fullpage_vars, element_vars, call_vars>>
    \/ S3ConnectReturns /\ UNCHANGED <<stitch_vars, browser_vars, paginated_vars, fullpage_vars, element_vars, call_vars>>
    \/ S3StoreFile /\ UNCHANGED <<stitch_vars, browser_vars, paginated_vars, fullpage_vars, element_vars, call_vars>>
    \/ S3GetFileVerifies /\ UNCHANGED <<stitch_vars, browser_vars, paginated_vars, fullpage_vars, element_vars, call_vars>>
    \/ S3VerifyFile /\ UNCHANGED <<stitch_vars, browser_vars, paginated_vars, fullpage_vars, element_vars, call_vars>>
    \/ S3GetFile /\ UNCHANGED <<stitch_vars, browser_vars, paginated_vars, fullpage_vars, element_vars, call_vars>>

SpecS3 == InitS3 /\ [][NextS3]_vars

\* ------------------------------------------------------------------ claims
\* The stitcher's inputs as the claims name them.
H1 == Len(header_image)
H2 == Len(footer_image)
\* N, the effective pixel_match_offset, and B, the last N rows of the header.
EffectiveOffset == Min(configured_offset, H1)
Band == [k \in 1..EffectiveOffset |-> header_image[H1 - EffectiveOffset + k]]
\* Footer rows r..r+N-1 are identical to B.
Qualifies(r) ==
    /\ r + EffectiveOffset <= H2
    /\ \A y \in 0..(EffectiveOffset - 1) : RowAt(footer_image, r + y) = RowAt(Band, y)
QualifyingRows == {r \in 0..(H2 - 1) : Qualifies(r)}
\* Footer rows r and r+N-1 are identical to the first and the last row of B.
EndsMatch(r) ==
    /\ r + EffectiveOffset <= H2
    /\ RowAt(footer_image, r) = RowAt(Band, 0)
    /\ RowAt(footer_image, r + EffectiveOffset - 1) = RowAt(Band, EffectiveOffset - 1)
Least(S) == CHOOSE m \in S : \A n \in S : m <= n

\* C1: a footer row i is accepted as the match position (crop_row = i + offset)
\* only if every one of the offset rows F[i+y] equals B[y].
C1_AcceptsOnlyFullBlock ==
    (st_pc \in {"scan", "crop"} /\ crop_row # 0)
        => Qualifies(crop_row - EffectiveOffset)

\* C2: when the header's last N rows are footer rows r..r+N-1 and no earlier
\* footer position qualifies, the stitch returns an image of height
\* H1 + (H2 - (r + N)).
C2_StitchOverlap ==
    (st_pc \in {"done", "failed"} /\ QualifyingRows # {})
        => /\ st_pc = "done"
           /\ Len(stitched_image) = H1 + (H2 - (Least(QualifyingRows) + EffectiveOffset))

C4_StitchedHeight ==
    st_pc = "done"
        => LET Hs == Len(stitched_image)
               below == {k \in 0..(H2 - 1) : k >= crop_row}
           IN  /\ H1 <= Hs
               /\ Hs <= H1 + H2
               /\ Hs = H1 + Cardinality(below)
               /\ \A k \in 0..(Hs - 1) :
                     RowAt(stitched_image, k) =
                        IF k < H1 THEN RowAt(header_image, k)
                        ELSE RowAt(footer_image, crop_row + (k - H1))
C4_Witness ==
    /\ st_pc = "done"
    /\ H1 > H2
    /\ crop_row = H1
    /\ Len(stitched_image) = H1

\* C5: when two or more footer positions qualify as full matching blocks,
\* crop_row comes from the smallest one and no later row is examined.
C5_FirstMatchWins ==
    (st_pc = "done" /\ Cardinality(QualifyingRows) >= 2)
        => /\ crop_row = Least(QualifyingRows) + EffectiveOffset
           /\ i = Least(QualifyingRows) + 1

CeilDiv(a, b) == (a + b - 1) \div b

\* P, the padding in effect, satisfies 0 <= P < V in a running paginated capture.
PaddingBelowViewport ==
    /\ pg_pc \notin {"idle", "start"}
    /\ 0 <= scroll_padding
    /\ scroll_padding < client_height

\* C7: with 0 <= P < V the paginated loop terminates, takes at most
\* ceil(Hp / (V - P)) iterations, and exits only when the position read after
\* the advance equals the position before it.
C7_PaginationTerminates ==
    /\ [](PaddingBelowViewport =>
             /\ Len(image_list) <= CeilDiv(page_height, client_height - scroll_padding)
             /\ (pg_pc = "done" => new_scroll_position = current_scroll_position))
    /\ (PaddingBelowViewport ~> pg_pc = "done")
C7_Witness ==
    /\ PaddingBelowViewport
    /\ pg_pc = "done"
    /\ Len(image_list) = CeilDiv(page_height, client_height - scroll_padding)
    /\ Len(image_list) >= 3
    /\ scroll_padding > 0

\* The page of height 3000 seen through a viewport of 800 with padding 100.
ExampleScenario ==
    /\ page_height = 3000
    /\ client_height = 800
    /\ scroll_padding = 100

\* C8 as stated: the example's capture returns exactly 4 images.
C8_ExampleFourImages ==
    (pg_pc = "done" /\ ExampleScenario) => Len(image_list) = 4

\* C8 as amended: the example's capture returns exactly 5 images, taken at
\* 0, 700, 1400, 2100 and 2200, and the loop ends because the last position
\* read repeats the one before.
C8_ExampleFiveImages ==
    (pg_pc = "done" /\ ExampleScenario)
        => /\ Len(image_list) = 5
           /\ [k \in 1..5 |-> image_list[k].upper] = <<0, 700, 1400, 2100, 2200>>
           /\ \A k \in 1..5 : Height(image_list[k]) = 800
           /\ new_scroll_position = current_scroll_position
           /\ new_scroll_position = 2200
C8_Witness ==
    /\ pg_pc = "done"
    /\ ExampleScenario
    /\ Len(image_list) = 5

\* The calls _capture_full_page makes with both lists configured, in the
\* order C10 gives them: the headers hidden before the scroll to the bottom.
StatedOrder ==
    <<<<"scroll_window_to_position", "0">>>>
        \o SweepCalls("hide_element", footers)
        \o <<<<"_get_image_data", "viewport_only">>>>
        \o SweepCalls("show_element", footers)
        \o SweepCalls("hide_element", headers)
        \o <<<<"scroll_window_to_position", "40000">>>>
        \o <<<<"_get_image_data", "full">>>>
        \o SweepCalls("show_element", headers)
        \o <<<<"_crop_and_stitch_image", "">>>>

\* The same calls with the scroll to the bottom before the headers are hidden.
ScrollThenHideOrder ==
    <<<<"scroll_window_to_position", "0">>>>
        \o SweepCalls("hide_element", footers)
        \o <<<<"_get_image_data", "viewport_only">>>>
        \o SweepCalls("show_element", footers)
        \o <<<<"scroll_window_to_position", "40000">>>>
        \o SweepCalls("hide_element", headers)
        \o <<<<"_get_image_data", "full">>>>
        \o SweepCalls("show_element", headers)
        \o <<<<"_crop_and_stitch_image", "">>>>

IsPrefix(a, b) == Len(a) <= Len(b) /\ \A k \in 1..Len(a) : a[k] = b[k]

\* A full-page capture with both lists configured has reached the stitch.
StitchReached ==
    /\ BothSticky
    /\ fp_pc \in {"stitching", "save", "done", "raised"}
    /\ \E k \in 1..Len(calls) : calls[k] = <<"_crop_and_stitch_image", "">>

\* C9: a capture_scrolling_element call that returns has taken one image more
\* than it made scroll advances, one at each position the element was in.
C9_OneImagePerPosition ==
    /\ el_pc = "done" => Len(image_list) = element_scrolls + 1
    /\ el_pc = "check" => Len(image_list) = element_scrolls + 1
    /\ (el_pc = "done" /\ viewport_only)
          => /\ image_list[1].element = 0
             /\ \A k \in 1..(Len(image_list) - 1) :
                   image_list[k + 1].element =
                      ScrollAnElement(image_list[k].element, padding)
C9_Witness ==
    /\ el_pc = "done"
    /\ element_scrolls >= 2
    /\ Len(image_list) = element_scrolls + 1

\* C10 as stated: with both lists configured the calls are made in the stated
\* order, the headers hidden before the scroll to the bottom.
C10_StatedOrder ==
    StitchReached => IsPrefix(StatedOrder, calls)

\* C10 as amended: with both lists configured the calls are scroll to top,
\* hide footers, capture the header region (viewport only), show footers,
\* scroll to the bottom, hide headers, capture the footer region (full), show
\* headers, stitch: the headers are hidden after the scroll to the bottom.
C10_ScrollThenHide ==
    /\ (BothSticky /\ fp_pc \notin {"idle", "start"})
          => IsPrefix(calls, Append(ScrollThenHideOrder, <<"_create_image_file", "">>))
    /\ StitchReached => IsPrefix(ScrollThenHideOrder, calls)
    /\ (BothSticky /\ fp_pc = "done")
          => calls = Append(ScrollThenHideOrder, <<"_create_image_file", "">>)
C10_Witness ==
    /\ BothSticky
    /\ fp_pc = "done"
    /\ Len(headers) = 2
    /\ calls = Append(ScrollThenHideOrder, <<"_create_image_file", "">>)

\* C11: when a step of _capture_paginated_page or capture_scrolling_element
\* fails, after any number of images, the call raises and returns no list;
\* the only list a caller receives is the whole image_list of a call that
\* ran to its end.
C11_NoPartialSequence ==
    /\ (pg_pc = "raised" \/ el_pc = "raised")
          => /\ outcome.kind # "returned"
             /\ outcome.returned = <<>>
    /\ (outcome.kind = "returned" /\ (pg_pc # "idle" \/ el_pc # "idle"))
          => /\ pg_pc = "done" \/ el_pc = "done"
             /\ outcome.returned = <<image_list>>
C11_Witness ==
    /\ el_pc = "raised"
    /\ outcome.kind = "raised"
    /\ Len(image_list) >= 2

\* The sweeps of _capture_full_page: the step that runs each, its operation
\* and its list.
SweepPcs == {"hide_footers", "show_footers", "hide_headers", "show_headers"}
SweepOperation == IF fp_pc \in {"hide_footers", "hide_headers"}
                  THEN "hide_element" ELSE "show_element"
SweepList == IF fp_pc \in {"hide_footers", "show_footers"} THEN footers ELSE headers
\* The sweep of this step ran to its end, or an exception left it.
SweepCompletes == fp_pc \in SweepPcs /\ fp_pc' \notin {fp_pc, "raised"}
SweepRaises == fp_pc \in SweepPcs /\ fp_pc' = "raised"

\* C12: in _hide_elements and _show_elements a toggle that fails because the
\* element does not exist or is not visible is swallowed: no such failure
\* leaves the sweep, and a sweep no other failure ends tries every selector
\* of the list, in list order, and toggles every one that can be toggled.
C12_ToleratedFailuresSwallowed ==
    [][/\ fp_pc \in SweepPcs
          => exception'.class \notin {"ElementError", "ElementNotVisibleError"}
       /\ SweepCompletes
          => /\ calls' = calls \o SweepCalls(SweepOperation, SweepList)
             /\ \A k \in 1..Len(SweepList) :
                   IF SweepOperation = "hide_element"
                   THEN SweepList[k] \in present => SweepList[k] \in hidden'
                   ELSE SweepList[k] \notin hidden']_vars
C12_Witness ==
    /\ fp_pc = "capture_footer"
    /\ headers = <<"h1", "h2">>
    /\ "h1" \notin present
    /\ "h2" \in present /\ "h2" \in hidden
    /\ SubSeq(calls, Len(calls) - 1, Len(calls))
          = <<<<"hide_element", "h1">>, <<"hide_element", "h2">>>>

\* C13: in _hide_elements and _show_elements any other failure leaves the
\* sweep at once, as it is: the selectors up to the failing one were tried, no
\* selector after it is toggled, nor the failing one, and the ones before it
\* keep the state the sweep gave them.
C13_OtherFailurePropagates ==
    [][SweepRaises
          => LET tried == Len(calls') - Len(calls)
             IN  /\ tried \in 1..Len(SweepList)
                 /\ exception' \in Failures
                 /\ calls' = calls \o SweepCalls(SweepOperation,
                                                  SubSeq(SweepList, 1, tried))
                 /\ \A k \in tried..Len(SweepList) :
                       (SweepList[k] \in hidden') <=> (SweepList[k] \in hidden)
                 /\ \A k \in 1..(tried - 1) :
                       IF SweepOperation = "hide_element"
                       THEN SweepList[k] \in present => SweepList[k] \in hidden'
                       ELSE SweepList[k] \notin hidden'
                 /\ \A e \in Selectors :
                       (\A k \in 1..Len(SweepList) : SweepList[k] # e)
                          => ((e \in hidden') <=> (e \in hidden))]_vars
C13_Witness ==
    /\ fp_pc = "raised"
    /\ headers = <<"h1", "h2">>
    /\ footers # <<>>
    /\ calls # <<>>
    /\ calls[Len(calls)] = <<"hide_element", "h2">>
    /\ "h1" \in present /\ "h1" \in hidden
    /\ "h2" \in present /\ "h2" \notin hidden

\* C14: the padding of every scroll advance is the per-call value whenever one
\* is supplied, 0 included, and the configured default only when none is.
C14_PerCallPaddingUsed ==
    /\ pg_pc \notin {"idle", "start"}
          => scroll_padding = (IF padding_arg # <<>> THEN padding_arg[1]
                               ELSE self_scroll_padding)
    /\ el_pc \notin {"idle", "start"}
          => padding = (IF scroll_padding_arg # <<>> THEN scroll_padding_arg[1]
                        ELSE self_scroll_padding)

\* C15: the configuration of a Screenshot is unchanged by its calls; in
\* particular pixel_match_offset keeps its configured value through a stitch
\* with a header shorter than the offset.
C15_ConfigurationUnchanged ==
    [][/\ pixel_match_offset' = pixel_match_offset
       /\ headers' = headers
       /\ footers' = footers
       /\ self_scroll_padding' = self_scroll_padding]_vars

\* C16: every crop box lies within the image it is applied to: the viewport's
\* box within the screenshot on a context that is not mobile, and the
\* stitch's crop_row within the footer.
C16_CropBoxesWithinBounds ==
    /\ \A k \in 1..Len(image_list) :
          (pg_pc # "idle" /\ ~mobile)
             => /\ image_list[k].shot_upper <= image_list[k].upper
                /\ image_list[k].lower <= image_list[k].shot_lower
    /\ st_pc = "done" => crop_row <= H2

\* C17: in the footer-only and the header-and-footer strategies the footer
\* region is captured with the window at the document's bottom,
\* max(0, page height - viewport height), whatever the page's height.
C17_FooterShotAtBottom ==
    /\ (headers = <<>> /\ footers # <<>> /\ fp_pc = "save")
          => image_data.scroll = MaxScroll(page_height, client_height)
    /\ (BothSticky /\ fp_pc = "show_headers")
          => scroll_y = MaxScroll(page_height, client_height)

\* C18: every failure that leaves capture_page or capture_scrolling_element
\* is a ScreenshotException: a failure of the browser helper leaves as a
\* SeleniumError with the helper's message, stack trace and details, any
\* other failure (a stitch's included) as a ScreenshotException with the
\* trace captured in the handler; no exception leaves as it was raised.
C18_OnlyScreenshotExceptions ==
    outcome.kind = "raised"
        => LET e == outcome.raised
               d == e.details[1]
           IN  /\ Catches("ScreenshotException", e)
               /\ e # exception
               /\ IF Catches("SeleniumHelperExceptions", exception)
                  THEN /\ e.class = "SeleniumError"
                       /\ SubSeq(e.msg, 2, Len(e.msg)) = exception.msg
                       /\ d["stracktrace"] = exception.stacktrace
                       /\ \A key \in DOMAIN exception.details[1] :
                             d[key] = exception.details[1][key]
                  ELSE /\ e.class = "ScreenshotException"
                       /\ d["stracktrace"] = <<"Traceback", exception.class>>
C18_Witness ==
    /\ outcome.kind = "raised"
    /\ el_pc = "idle"
    /\ exception.class = "ScreenshotException"
    /\ outcome.raised.class = "ScreenshotException"
    /\ outcome.raised.details[1]["stracktrace"] = <<"Traceback", "ScreenshotException">>

\* C19: the scroll target of each advance of the paginated capture is computed
\* from the viewport height the browser has at that iteration:
\* previous + current viewport height - padding.
C19_LiveViewportHeight ==
    [][(pg_pc = "advance" /\ pg_pc' = "check")
          => scroll_y' = ScrollWindowTo(
                            ScrollTarget(current_scroll_position, client_height,
                                         scroll_padding),
                            page_height, client_height)]_vars

\* Footer row r equals B[0] and fewer than N rows lie from r to the footer's end.
ShortTail(r) ==
    /\ RowAt(footer_image, r) = RowAt(Band, 0)
    /\ r + EffectiveOffset > H2

\* C20: a footer row that equals B[0] with fewer than offset rows from it to
\* the footer's end does not qualify and does not make the stitch fail; with
\* no other position qualifying the result is the fallback, crop_row = H1.
C20_ShortTailNotQualifying ==
    /\ (\E r \in 0..(H2 - 1) : ShortTail(r)) => st_pc # "failed"
    /\ (st_pc = "done" /\ QualifyingRows = {} /\ \E r \in 0..(H2 - 1) : ShortTail(r))
          => crop_row = H1

\* ---------------------------------------------------------------------- C21
\* The sticky elements the call of capture_page hid: hidden now and not when
\* the call began.
HiddenByCall == hidden \ hidden_before

\* capture_page, called with header and footer selectors, has returned or
\* raised.
CapturePageEnded ==
    /\ el_pc = "idle"
    /\ BothSticky
    /\ fp_pc \in {"done", "raised"}
    /\ outcome # NoOutcome

\* C21: whenever a capture_page call with header and footer selectors ends,
\* by returning an image or by raising at any step, every existing sticky
\* element the call hid has been shown again: no header or footer is left
\* hidden by the call.
C21_StickyShownAgain ==
    CapturePageEnded => HiddenByCall = {}

\* ---------------------------------------------------------------------- C22
\* The scroll position at which the k-th image of the paginated capture was
\* taken.
PositionOf(k) == image_list[k].scroll

\* The k-th image shows the band [p, p + V) of the document, p its position.
ShowsViewportBand(k) ==
    /\ image_list[k].upper = PositionOf(k)
    /\ image_list[k].lower = PositionOf(k) + client_height

\* C22: for 0 <= P < V the positions at which _capture_paginated_page takes
\* its images start at 0 and are strictly increasing, consecutive positions
\* differ by at most V - P, each image shows the band [p, p + V), and when the
\* loop has returned the bands cover every page row in [0, Hp).
C22_PaginatedCoverage ==
    PaddingBelowViewport =>
        /\ image_list # <<>> => PositionOf(1) = 0
        /\ \A k \in 1..Len(image_list) : ShowsViewportBand(k)
        /\ \A k \in 1..(Len(image_list) - 1) :
              /\ PositionOf(k) < PositionOf(k + 1)
              /\ PositionOf(k + 1) - PositionOf(k) <= client_height - scroll_padding
        /\ pg_pc = "done" =>
              \A row \in 0..(page_height - 1) :
                 \E k \in 1..Len(image_list) :
                    image_list[k].upper <= row /\ row < image_list[k].lower
C22_Witness ==
    /\ PaddingBelowViewport
    /\ pg_pc = "done"
    /\ ~mobile
    /\ Len(image_list) >= 3
    /\ scroll_padding > 0
    /\ PositionOf(Len(image_list)) - PositionOf(Len(image_list) - 1)
          < client_height - scroll_padding
    /\ PositionOf(Len(image_list)) + client_height = page_height

\* ---------------------------------------------------------------------- C23
\* The loop of capture_scrolling_element runs on an element whose visible
\* height is greater than the padding in effect.
ElementTallerThanPadding ==
    /\ el_pc \in {"capture", "capturing", "check"}
    /\ element_height > padding

\* C23: capture_scrolling_element terminates for every element of finite
\* scroll height whose visible height is greater than the padding in effect:
\* the call ends, and unless a capture raises the element reaches its scroll
\* bottom and the loop exits there; the loop exits only at an iteration where
\* the element is at its scroll bottom.
C23_ElementLoopTerminates ==
    /\ [](el_pc = "done" => ElementAtBottom /\ outcome.kind = "returned")
    /\ [](outcome.kind = "returned" => el_pc = "done")
    /\ (ElementTallerThanPadding ~> (ElementAtBottom \/ exception # NoException))
    /\ (ElementTallerThanPadding ~> (el_pc = "done" \/ outcome.kind = "raised"))
C23_Witness ==
    /\ el_pc = "done"
    /\ exception = NoException
    /\ element_height > padding
    /\ padding > 0
    /\ element_scrolls >= 3
    /\ ElementAtBottom
    /\ element_scroll_top = element_scrolls * (element_height - padding)

\* ---------------------------------------------------------------------- C24
\* No connect is between its line 29 and its end.
OutsideConnect == s3_pc \notin {"get_bucket", "failed"}

\* The client holds a connection and the bucket got from it.
S3Connected ==
    /\ s3_connection # <<>>
    /\ bucket # <<>>

\* C24: after any sequence of connect, store_file, get_file and verify_file
\* calls, with connection attempts that succeed or fail, s3_connection and
\* bucket are both set or both None; a failed connect leaves both None and
\* raises, so that the next call attempts a fresh connection; and once a
\* connect has succeeded, later calls open no new connection.
C24_ConnectionAndBucketTogether ==
    /\ [](OutsideConnect => (s3_connection = <<>> <=> bucket = <<>>))
    /\ [](bucket # <<>> => S3Connected /\ bucket[1].connection = s3_connection[1])
    /\ []((s3_pc = "idle" /\ s3_outcome = "raised")
             => s3_connection = <<>> /\ bucket = <<>>)
    /\ [][s3_pc = "failed" =>
             /\ s3_connection' = <<>> /\ bucket' = <<>>
             /\ s3_stack = <<S3Running>> => (s3_outcome' = "raised" /\ s3_pc' = "idle")]_vars
    /\ [][(s3_pc = "connect" /\ s3_connection = <<>>)
             => s3_pc' \in {"get_bucket", "failed"}]_vars
    /\ [][S3Connected =>
             /\ connections_opened' = connections_opened
             /\ s3_connection' = s3_connection
             /\ bucket' = bucket]_vars
C24_Witness ==
    /\ s3_pc = "idle"
    /\ s3_calls >= 3
    /\ s3_outcome = "returned"
    /\ connections_opened = 2
    /\ S3Connected
    /\ s3_connection = <<2>>

=============================================================================
